---------------------------- MODULE Spec2Model ----------------------------
(***************************************************************************)
(* A model of systemd-unit-rs: the escape/quote engine (quoted.rs), the    *)
(* value abstraction (value.rs), the unit-file parser (parser.rs) and the  *)
(* ordered document (lib.rs).                                              *)
(*                                                                         *)
(* A character is a one-character string ("a", "\n", "'"); a character     *)
(* TLA+ cannot write is named by a token in caret notation ("^A" is        *)
(* U+0001, "^@" is U+0000, "^?" is U+007F) or "chr(n)".  A Rust string is  *)
(* the sequence of its characters.  An Option<char> is a character or      *)
(* None.                                                                   *)
(*                                                                         *)
(* A loop of the code is a recursive operator, one turn per call, with the *)
(* loop's local variables as its parameters.                               *)
(***************************************************************************)
EXTENDS Integers, Sequences, FiniteSets, TLC

VARIABLES
    unit,    \* the SystemdUnit under test (self): its `sections` multimap
    other,   \* the SystemdUnit handed to merge_from
    op,      \* the last operation applied to unit, with its arguments
    pc,      \* where the run is: document life cycle, or codec steps
    s,       \* the logical string given to EntryValue::from_unquoted
    ev,      \* the EntryValue built from s
    unq,     \* the result of ev.try_unquote()
    ret,     \* the result of the scanner or decoder applied to the text s
    split_strv,  \* a SplitStrv over the source s
    split_word,  \* a SplitWord over the source s
    out      \* what the calls to next have returned so far, per tokenizer

vars == <<unit, other, op, pc, s, ev, unq, ret, split_strv, split_word, out>>

-----------------------------------------------------------------------------
(* Characters *)

None == "None"

\* Code points of the characters the model uses.
ord ==
    [c \in {"^@", "^A", "^G", "^H", "\t", "\n", "^K", "\f", "\r", " ", "\"",
            "#", "'", "-", "0", "1", "2", "3", "4", "5", "6", "7", "8", "9",
            ";", "=", "A", "X", "Y", "[", "\\", "]", "a", "b", "c", "d", "e",
            "f", "j", "k", "n", "r", "s", "t", "u", "v", "x", "^?",
            "chr(128)", "chr(233)"} |->
        CASE c = "^@" -> 0   [] c = "^A" -> 1   [] c = "^G" -> 7
          [] c = "^H" -> 8   [] c = "\t" -> 9   [] c = "\n" -> 10
          [] c = "^K" -> 11  [] c = "\f" -> 12  [] c = "\r" -> 13
          [] c = " "  -> 32  [] c = "\"" -> 34  [] c = "#"  -> 35
          [] c = "'"  -> 39  [] c = "-"  -> 45
          [] c = "0"  -> 48  [] c = "1"  -> 49  [] c = "2"  -> 50
          [] c = "3"  -> 51  [] c = "4"  -> 52  [] c = "5"  -> 53
          [] c = "6"  -> 54  [] c = "7"  -> 55  [] c = "8"  -> 56
          [] c = "9"  -> 57  [] c = ";"  -> 59  [] c = "="  -> 61
          [] c = "A"  -> 65  [] c = "X"  -> 88  [] c = "Y"  -> 89
          [] c = "["  -> 91  [] c = "\\" -> 92  [] c = "]"  -> 93
          [] c = "a"  -> 97  [] c = "b"  -> 98  [] c = "c"  -> 99
          [] c = "d"  -> 100 [] c = "e"  -> 101 [] c = "f"  -> 102
          [] c = "j"  -> 106 [] c = "k"  -> 107 [] c = "n"  -> 110
          [] c = "r"  -> 114 [] c = "s"  -> 115 [] c = "t"  -> 116
          [] c = "u"  -> 117 [] c = "v"  -> 118 [] c = "x"  -> 120
          [] c = "^?" -> 127 [] c = "chr(128)" -> 128
          [] c = "chr(233)" -> 233]

\* char::try_from(u32) on a scalar value: the character with code point n.
chr(n) ==
    IF \E c \in DOMAIN ord : ord[c] = n
    THEN CHOOSE c \in DOMAIN ord : ord[c] = n
    ELSE "chr(" \o ToString(n) \o ")"

is_ascii_control(c) == ord[c] \in 0..31 \/ ord[c] = 127

is_ascii_whitespace(c) == c \in {" ", "\t", "\n", "\f", "\r"}

is_ascii_digit(c) == c \in {"0", "1", "2", "3", "4", "5", "6", "7", "8", "9"}

is_ascii_hexdigit(c) ==
    \/ is_ascii_digit(c)
    \/ ord[c] \in 65..70
    \/ ord[c] \in 97..102

is_alphanumeric(c) ==
    \/ is_ascii_digit(c)
    \/ ord[c] \in 65..90
    \/ ord[c] \in 97..122
    \/ c = "chr(233)"

\* The value of a hex (or octal) digit.
digit_value(c) ==
    IF is_ascii_digit(c) THEN ord[c] - 48
    ELSE IF ord[c] \in 65..70 THEN ord[c] - 55
    ELSE ord[c] - 87

\* Lower-case hex digit of a value 0..15, as format!("{:x}") prints it.
hex_digit(n) ==
    <<"0", "1", "2", "3", "4", "5", "6", "7", "8", "9",
      "a", "b", "c", "d", "e", "f">>[n + 1]

\* format!("{:02x}", n): at least two lower-case hex digits.
RECURSIVE hex_digits(_)
hex_digits(n) ==
    IF n < 16 THEN <<hex_digit(n)>>
    ELSE hex_digits(n \div 16) \o <<hex_digit(n % 16)>>

format_02x(n) == IF n < 16 THEN <<"0", hex_digit(n)>> ELSE hex_digits(n)

-----------------------------------------------------------------------------
(* quoted.rs: the escape/quote engine *)

char_needs_escaping(c) ==
    IF ord[c] > 128 THEN FALSE
    ELSE \/ is_ascii_control(c)
         \/ is_ascii_whitespace(c)
         \/ c = "\""
         \/ c = "'"
         \/ c = "\\"

\* What quote_value pushes for one character.
quote_char(c) ==
    IF ~char_needs_escaping(c) THEN <<c>>
    ELSE CASE c = "^G"  -> <<"\\", "a">>
           [] c = "^H"  -> <<"\\", "b">>
           [] c = "\n"  -> <<"\\", "n">>
           [] c = "\r"  -> <<"\\", "r">>
           [] c = "\t"  -> <<"\\", "t">>
           [] c = "^K"  -> <<"\\", "v">>
           [] c = "\f"  -> <<"\\", "f">>
           [] c = "\\"  -> <<"\\", "\\">>
           [] c = " "   -> <<" ">>
           [] c = "\""  -> <<"\\", "\"">>
           [] c = "'"   -> <<"'">>
           [] OTHER     -> <<"\\", "x">> \o format_02x(ord[c])

\* The for loop of quote_value over the characters from index i on.
RECURSIVE quote_from(_, _)
quote_from(value, i) ==
    IF i > Len(value) THEN <<>>
    ELSE quote_char(value[i]) \o quote_from(value, i + 1)

quote_value(value) == quote_from(value, 1)

\* Results: Ok(val) or Err(Error::Unquoting(msg)).
Ok(v) == [ok |-> TRUE, val |-> v, msg |-> ""]
Err(m) == [ok |-> FALSE, val |-> <<>>, msg |-> m]

\* Quoted.cur with the cursor at index i of raw (Quoted::bump is i + 1).
Qcur(raw, i) == IF i <= Len(raw) THEN raw[i] ELSE None

\* from_str_radix on a string of valid digits.
RECURSIVE from_str_radix(_, _)
from_str_radix(code, radix) ==
    IF code = <<>> THEN 0
    ELSE from_str_radix(SubSeq(code, 1, Len(code) - 1), radix) * radix
         + digit_value(code[Len(code)])

\* char::try_from(u32) succeeds on Unicode scalar values only.
is_scalar_value(ucp) == ucp <= 1114111 /\ ~(ucp \in 55296..57343)

\* The for loop of Quoted::parse_unicode_escape with the cursor at i: it runs
\* max_chars times, reading one digit each time and bumping after all but
\* the last.  Returns [ok, val (the digits), msg, i (the cursor afterwards)].
RECURSIVE parse_unicode_digits(_, _, _, _, _)
parse_unicode_digits(raw, i, code, max_chars, radix) ==
    IF Len(code) = max_chars
    THEN [ok |-> TRUE, val |-> code, msg |-> "", i |-> i]
    ELSE IF Qcur(raw, i) = None
    THEN [ok |-> FALSE, val |-> code,
          msg |-> "expecting unicode escape sequence, but found EOF.", i |-> i]
    ELSE IF radix = 16 /\ ~is_ascii_hexdigit(raw[i])
    THEN [ok |-> FALSE, val |-> Append(code, raw[i]),
          msg |-> "expected hex values", i |-> i]
    ELSE IF radix = 8 /\ (~is_ascii_digit(raw[i]) \/ raw[i] \in {"8", "9"})
    THEN [ok |-> FALSE, val |-> Append(code, raw[i]),
          msg |-> "expected octal values", i |-> i]
    ELSE parse_unicode_digits(
             raw, IF Len(code) + 1 # max_chars THEN i + 1 ELSE i,
             Append(code, raw[i]), max_chars, radix)

\* A faulty end that lets the code point zero through.
unicode_char_with_zero(ucp, i) ==
    IF ~is_scalar_value(ucp)
    THEN [ok |-> FALSE, val |-> None,
          msg |-> "invalid unicode character in escape sequence", i |-> i]
    ELSE [ok |-> TRUE, val |-> chr(ucp), msg |-> "", i |-> i]

\* The end of Quoted::parse_unicode_escape: the character of code point ucp.
unicode_char(ucp, i) ==
    IF ucp = 0
    THEN [ok |-> FALSE, val |-> None,
          msg |-> "\\0 character not allowed in escape sequence", i |-> i]
    ELSE IF ~is_scalar_value(ucp)
    THEN [ok |-> FALSE, val |-> None,
          msg |-> "invalid unicode character in escape sequence", i |-> i]
    ELSE [ok |-> TRUE, val |-> chr(ucp), msg |-> "", i |-> i]

\* The digits d read by the loop: its error, or the character they spell.
unicode_digits(d, radix) ==
    IF ~d.ok THEN [ok |-> FALSE, val |-> None, msg |-> d.msg, i |-> d.i]
    ELSE unicode_char(from_str_radix(d.val, radix), d.i)

\* Quoted::parse_unicode_escape.  Returns [ok, val (the character), msg, i].
parse_unicode_escape(raw, i, max_chars, radix) ==
    unicode_digits(parse_unicode_digits(raw, i, <<>>, max_chars, radix), radix)

\* An escape sequence of one character.
one_char(r, i) == [ok |-> TRUE, val |-> r, msg |-> "", i |-> i]

\* Quoted::parse_escape_sequence with the cursor at i (the character after
\* the backslash).  Returns [ok, val (the character), msg, i].
parse_escape_sequence(raw, i) ==
    IF Qcur(raw, i) = None
    THEN [ok |-> FALSE, val |-> None,
          msg |-> "expecting escape sequence, but found EOF.", i |-> i]
    ELSE CASE raw[i] = "a"  -> one_char("^G", i)
           [] raw[i] = "b"  -> one_char("^H", i)
           [] raw[i] = "f"  -> one_char("\f", i)
           [] raw[i] = "n"  -> one_char("\n", i)
           [] raw[i] = "r"  -> one_char("\r", i)
           [] raw[i] = "t"  -> one_char("\t", i)
           [] raw[i] = "v"  -> one_char("^K", i)
           [] raw[i] = "\\" -> one_char("\\", i)
           [] raw[i] = "\"" -> one_char("\"", i)
           [] raw[i] = "'"  -> one_char("'", i)
           [] raw[i] = "s"  -> one_char(" ", i)
           [] raw[i] = "x"  -> parse_unicode_escape(raw, i + 1, 2, 16)
           [] raw[i] = "u"  -> parse_unicode_escape(raw, i + 1, 4, 16)
           [] raw[i] = "U"  -> parse_unicode_escape(raw, i + 1, 8, 16)
           [] raw[i] \in {"0", "1", "2", "3", "4", "5", "6", "7"}
                            -> parse_unicode_escape(raw, i, 3, 8)
           [] OTHER         -> [ok |-> FALSE, val |-> None,
                                msg |-> "expecting escape sequence, but found char",
                                i |-> i]

\* result.ends_with([' ', '\t', '\n'])
ends_with_ws(result) ==
    result # <<>> /\ result[Len(result)] \in {" ", "\t", "\n"}

\* Quoted::parse_and_unquote: one turn of the while loop per call, with the
\* cursor at i, the output so far in result and the open quote in quote.
RECURSIVE parse_and_unquote(_, _, _, _)

\* The '\\' arm of parse_and_unquote, given the parsed escape sequence e.
push_escaped(raw, result, quote, e) ==
    IF ~e.ok THEN Err(e.msg)
    ELSE parse_and_unquote(raw, e.i + 1, Append(result, e.val), quote)

parse_and_unquote(raw, i, result, quote) ==
    IF Qcur(raw, i) = None THEN Ok(result)
    ELSE IF raw[i] \in {"'", "\""} /\ (ends_with_ws(result) \/ result = <<>>)
    THEN parse_and_unquote(raw, i + 1, result, raw[i])
    ELSE IF raw[i] = "\\"
    THEN IF Qcur(raw, i + 1) = None
         THEN Err("expecting escape sequence, but found EOF.")
         ELSE push_escaped(raw, result, quote, parse_escape_sequence(raw, i + 1))
    ELSE IF raw[i] = quote
    THEN parse_and_unquote(raw, i + 1, result, None)
    ELSE parse_and_unquote(raw, i + 1, Append(result, raw[i]), quote)

unquote_value(raw) == parse_and_unquote(raw, 1, <<>>, None)

-----------------------------------------------------------------------------
(* value.rs: the value abstraction *)

from_unquoted(unquoted) == [raw |-> quote_value(unquoted), unquoted |-> unquoted]

\* Ok(Self { raw, unquoted }) of the unquoting result u, or its error.
entry_value_of(raw, u) ==
    IF u.ok THEN Ok([raw |-> raw, unquoted |-> u.val]) ELSE Err(u.msg)

\* Ok(EntryValue) or Err(Error::Unquoting(msg)).
try_from_raw(raw) == entry_value_of(raw, unquote_value(raw))

try_unquote(value) == unquote_value(value.raw)

-----------------------------------------------------------------------------
(* ListOrderedMultimap (ordered_multimap crate), as lib.rs uses it: the      *)
(* sequence of its (key, value) pairs in insertion order.                    *)

\* ListOrderedMultimap::contains_key
contains_key(m, key) == \E i \in 1..Len(m) : m[i].key = key

\* ListOrderedMultimap::get_all: the values of key, oldest first.
RECURSIVE get_all_from(_, _, _)
get_all_from(m, key, i) ==
    IF i > Len(m) THEN <<>>
    ELSE (IF m[i].key = key THEN <<m[i].value>> ELSE <<>>)
         \o get_all_from(m, key, i + 1)

get_all(m, key) == get_all_from(m, key, 1)

\* ListOrderedMultimap::remove_all: what is left of m; the removed values
\* are get_all(m, key).
RECURSIVE remove_all_from(_, _, _)
remove_all_from(m, key, i) ==
    IF i > Len(m) THEN <<>>
    ELSE (IF m[i].key = key THEN <<>> ELSE <<m[i]>>)
         \o remove_all_from(m, key, i + 1)

remove_all(m, key) == remove_all_from(m, key, 1)

\* ListOrderedMultimap::append: the pair goes to the back of the list.
append(m, key, value) == Append(m, [key |-> key, value |-> value])

\* ListOrderedMultimap::keys_len: the number of distinct keys.
keys_len(m) == Cardinality({m[i].key : i \in 1..Len(m)})

\* The position of the first value of key (what get, entry().or_insert and
\* OccupiedEntry::into_mut refer to).
first_index(m, key) ==
    CHOOSE i \in 1..Len(m) :
        m[i].key = key /\ \A j \in 1..(i - 1) : m[j].key # key

\* A faulty or_insert that inserts even when key is occupied.
or_insert_always(m, key, value) == append(m, key, value)

\* Entry::or_insert / or_insert_entry: insert value if key is vacant.
or_insert(m, key, value) ==
    IF contains_key(m, key) THEN m ELSE append(m, key, value)

-----------------------------------------------------------------------------
(* lib.rs: SystemdUnit.  The `path` field is None throughout and is left     *)
(* out; a unit is the record of its `sections` multimap, whose values are    *)
(* Entries records [data |-> multimap of key to EntryValue].                 *)

\* Entries::default(), also the shared EMPTY that unwrap_or_default gives.
default_entries == [data |-> <<>>]

new == [sections |-> <<>>]

\* self.sections.get(&section).unwrap_or_default()
get_entries(u, section) ==
    IF contains_key(u.sections, section)
    THEN u.sections[first_index(u.sections, section)].value
    ELSE default_entries

\* A faulty append that drops a value the key already holds.
append_at_dedup(m, i, key, value) ==
    IF \E j \in 1..Len(m[i].value.data) :
           m[i].value.data[j] = [key |-> key, value |-> value]
    THEN [sections |-> m]
    ELSE [sections |-> [m EXCEPT ![i].value.data = append(@, key, value)]]

\* .data.append(key, value) on the Entries at position i of the multimap m.
append_at(m, i, key, value) ==
    [sections |-> [m EXCEPT ![i].value.data = append(@, key, value)]]

\* .data.append(key, value) on the first Entries of section in m.
append_in(m, section, key, value) ==
    append_at(m, first_index(m, section), key, value)

append_entry_value(u, section, key, value) ==
    append_in(or_insert(u.sections, section, default_entries), section, key, value)

append_entry(u, section, key, value) ==
    append_entry_value(u, section, key, from_unquoted(value))

has_key(u, section, key) ==
    contains_key(u.sections, section)
        /\ contains_key(get_entries(u, section).data, key)

has_section(u, name) == contains_key(u.sections, name)

len(u) == keys_len(u.sections)

lookup_all_values(u, section, key) ==
    get_all(get_entries(u, section).data, key)

\* .map(|v| v.unquoted().as_str())
unquoted_of(values) == [i \in 1..Len(values) |-> values[i].unquoted]

lookup_all(u, section, key) == unquoted_of(lookup_all_values(u, section, key))

\* A faulty fold that skips an empty value without clearing res.
RECURSIVE fold_without_clear(_, _)
fold_without_clear(res, values) ==
    IF values = <<>> THEN res
    ELSE fold_without_clear(IF Head(values) = <<>> THEN res
                            ELSE Append(res, Head(values)),
                            Tail(values))

\* The fold of lookup_all_with_reset over values, starting from res.
RECURSIVE fold_reset(_, _)
fold_reset(res, values) ==
    IF values = <<>> THEN res
    ELSE fold_reset(IF Head(values) = <<>> THEN <<>>
                    ELSE Append(res, Head(values)),
                    Tail(values))

lookup_all_with_reset(u, section, key) ==
    fold_reset(<<>>, unquoted_of(get_all(get_entries(u, section).data, key)))

\* .last() of the values: Option<&EntryValue>.
last_of(values) == IF values = <<>> THEN None ELSE values[Len(values)]

lookup_last_value(u, section, key) ==
    last_of(get_all(get_entries(u, section).data, key))

\* .map(|v| v.unquoted().as_str()) of an Option<&EntryValue>.
unquoted_of_option(v) == IF v = None THEN None ELSE v.unquoted

lookup_last(u, section, key) ==
    unquoted_of_option(lookup_last_value(u, section, key))

\* The inner loop of merge_from and rename_section: append every pair of
\* data to section, in data's order.
RECURSIVE append_all(_, _, _)
append_all(u, section, data) ==
    IF data = <<>> THEN u
    ELSE append_all(append_entry_value(u, section, Head(data).key,
                                       Head(data).value),
                    section, Tail(data))

\* The outer loop of merge_from over other's sections.
RECURSIVE merge_sections(_, _)
merge_sections(u, sections) ==
    IF sections = <<>> THEN u
    ELSE merge_sections(append_all(u, Head(sections).key,
                                   Head(sections).value.data),
                        Tail(sections))

merge_from(u, o) == merge_sections(u, o.sections)

\* The outer loop of rename_section over the removed Entries.
RECURSIVE rename_values(_, _, _)
rename_values(u, to, from_values) ==
    IF from_values = <<>> THEN u
    ELSE rename_values(append_all(u, to, Head(from_values).data), to,
                       Tail(from_values))

\* rename_section once `from` is known to exist: from_values are the Entries
\* that remove_all took out, removed is the unit without them.
rename_removed(removed, to, from_values) ==
    IF from_values = <<>> THEN removed
    ELSE rename_values(removed, to, from_values)

\* A faulty rename_section that copies the entries and leaves `from` alone.
rename_keeping_from(u, from, to) ==
    IF ~contains_key(u.sections, from) THEN u
    ELSE rename_removed(u, to, get_all(u.sections, from))

rename_section(u, from, to) ==
    IF ~contains_key(u.sections, from) THEN u
    ELSE rename_removed([sections |-> remove_all(u.sections, from)], to,
                        get_all(u.sections, from))

\* The (key, value) pairs of data, in iteration order.
pairs_of(data) == [i \in 1..Len(data) |-> <<data[i].key, data[i].value>>]

section_entry_values(u, name) == pairs_of(get_entries(u, name).data)

\* .map(|(k, v)| (k, v.unquoted()))
unquoted_pairs(pairs) ==
    [i \in 1..Len(pairs) |-> <<pairs[i][1], pairs[i][2].unquoted>>]

section_entries(u, name) == unquoted_pairs(section_entry_values(u, name))

\* The re-append loop of set_entry_value.
RECURSIVE append_values(_, _, _)
append_values(data, key, values) ==
    IF values = <<>> THEN data
    ELSE append_values(append(data, key, Head(values)), key, Tail(values))

\* values.pop()
pop(values) ==
    IF values = <<>> THEN values ELSE SubSeq(values, 1, Len(values) - 1)

\* A faulty set_entry_value without values.pop(): the old last value stays.
set_without_pop(data, key, value) ==
    append(append_values(remove_all(data, key), key, get_all(data, key)),
           key, value)

\* A faulty set_entry_value without the re-insert loop: the earlier values
\* of key are lost.
set_dropping_earlier(data, key, value) == append(remove_all(data, key), key, value)

\* set_entry_value on the data of one Entries: remove_all(key), pop, append
\* the values left and then the new one.
set_in_data(data, key, value) ==
    append(append_values(remove_all(data, key), key, pop(get_all(data, key))),
           key, value)

\* set_entry_value on the Entries at position i of the multimap m.
set_at(m, i, key, value) ==
    [sections |-> [m EXCEPT ![i].value.data = set_in_data(@, key, value)]]

\* set_entry_value on the first Entries of section in m.
set_in(m, section, key, value) ==
    set_at(m, first_index(m, section), key, value)

set_entry_value(u, section, key, value) ==
    set_in(or_insert(u.sections, section, default_entries), section, key, value)

set_entry(u, section, key, value) ==
    set_entry_value(u, section, key, from_unquoted(value))

\* The lines write_to emits for the pairs of one section.
RECURSIVE write_entries(_)
write_entries(data) ==
    IF data = <<>> THEN <<>>
    ELSE Head(data).key \o <<"=">> \o Head(data).value.raw \o <<"\n">>
         \o write_entries(Tail(data))

\* The loop of write_to over the sections.
RECURSIVE write_sections(_)
write_sections(sections) ==
    IF sections = <<>> THEN <<>>
    ELSE <<"[">> \o Head(sections).key \o <<"]", "\n">>
         \o write_entries(Head(sections).value.data) \o <<"\n">>
         \o write_sections(Tail(sections))

\* The text write_to writes.
write_to(u) == write_sections(u.sections)

-----------------------------------------------------------------------------
(* parser.rs: the recursive-descent parser.  A Parser is the record         *)
(* [i, line, column] over the text buf: buf[i] is `cur`, or None past the   *)
(* end.  A parse function returns [ok, p, val, err]: the parser afterwards, *)
(* the value on success and the ParseError on failure.  A function that     *)
(* goes on after a nested parse is split where the nested result comes      *)
(* back: the rest of it is an operator that takes the result.               *)

NoError == [line |-> 0, col |-> 0, msg |-> ""]

\* Parser.cur
Pcur(buf, p) == IF p.i >= 1 /\ p.i <= Len(buf) THEN buf[p.i] ELSE None

\* A faulty bump that counts a newline as a character of the line it ends.
bump_to_within_line(buf, p, i) ==
    IF i <= Len(buf)
    THEN [i |-> i, line |-> p.line, column |-> p.column + 1]
    ELSE [i |-> i, line |-> p.line, column |-> p.column]

\* Parser::bump, given the next index i.
bump_to(buf, p, i) ==
    IF i <= Len(buf) /\ buf[i] = "\n"
    THEN [i |-> i, line |-> p.line + 1, column |-> 0]
    ELSE IF i <= Len(buf)
    THEN [i |-> i, line |-> p.line, column |-> p.column + 1]
    ELSE [i |-> i, line |-> p.line, column |-> p.column]

\* Parser::bump
bump(buf, p) == bump_to(buf, p, IF p.i <= Len(buf) THEN p.i + 1 ELSE p.i)

\* Parser::new
parser_new(buf) == bump(buf, [i |-> 0, line |-> 0, column |-> 0])

\* Parser::error
error(p, msg) == [line |-> p.line, col |-> p.column, msg |-> msg]

POk(p, v) == [ok |-> TRUE, p |-> p, val |-> v, err |-> NoError]
PErr(p, msg) == [ok |-> FALSE, p |-> p, val |-> <<>>, err |-> error(p, msg)]

\* Parser::parse_until_any_of, with the string read so far in acc.
RECURSIVE parse_until_any_of(_, _, _, _)
parse_until_any_of(buf, p, end, acc) ==
    IF Pcur(buf, p) = None \/ Pcur(buf, p) \in end THEN [p |-> p, val |-> acc]
    ELSE parse_until_any_of(buf, bump(buf, p), end, Append(acc, Pcur(buf, p)))

\* Parser::parse_until_none_of, with the string read so far in acc.
RECURSIVE parse_until_none_of(_, _, _, _)
parse_until_none_of(buf, p, end, acc) ==
    IF Pcur(buf, p) = None \/ ~(Pcur(buf, p) \in end) THEN [p |-> p, val |-> acc]
    ELSE parse_until_none_of(buf, bump(buf, p), end, Append(acc, Pcur(buf, p)))

\* Ok(comment) of the text r read up to the end of the line.
comment_of(r) == POk(r.p, r.val)

\* Parser::parse_comment
parse_comment(buf, p) ==
    IF Pcur(buf, p) \in {"#", ";"}
    THEN comment_of(parse_until_any_of(buf, p, {"\n"}, <<>>))
    ELSE IF Pcur(buf, p) # None THEN PErr(p, "expected comment, but found char")
    ELSE PErr(p, "expected comment, but found EOF")

\* The check of Parser::parse_key on the text r read up to the separator.
key_of(r) ==
    IF ~(\A i \in 1..Len(r.val) : is_alphanumeric(r.val[i]) \/ r.val[i] = "-")
    THEN PErr(r.p, "Invalid key. Allowed characters are A-Za-z0-9-")
    ELSE POk(r.p, r.val)

\* Parser::parse_key
parse_key(buf, p) ==
    key_of(parse_until_any_of(buf, p, {"=", " ", "\t", "\n", "\r"}, <<>>))

\* A faulty replacement that joins the two lines with nothing between them.
empty_replacement == <<>>

\* The String that LINE_CONTINUATION_REPLACEMENT is.
LINE_CONTINUATION_REPLACEMENT == <<" ">>

\* Parser::parse_value: one turn of the while loop per call, with the local
\* variables value, backslash and line_continuation; c is self.cur and next
\* the parser after the bump that ends the turn.
RECURSIVE parse_value_loop(_, _, _, _, _)

\* A faulty turn that reads the character after a line continuation as it
\* reads any other: no comment is skipped and '[' does not end the value.
parse_value_turn_plain(buf, p, value, backslash, line_continuation, c, next) ==
    IF c = None THEN POk(p, value)
    ELSE IF backslash
    THEN IF c = "\n"
         THEN parse_value_loop(buf, next, value \o <<" ">>, FALSE, TRUE)
         ELSE parse_value_loop(buf, next, value \o <<"\\", c>>, FALSE, FALSE)
    ELSE IF c = "\\" THEN parse_value_loop(buf, next, value, TRUE, FALSE)
    ELSE IF c = "\n" THEN POk(p, value)
    ELSE parse_value_loop(buf, next, Append(value, c), FALSE, FALSE)

parse_value_turn(buf, p, value, backslash, line_continuation, c, next) ==
    IF c = None THEN POk(p, value)
    ELSE IF backslash
    THEN IF c = "\n"
         THEN parse_value_loop(buf, next, value \o LINE_CONTINUATION_REPLACEMENT,
                               FALSE, TRUE)
         ELSE parse_value_loop(buf, next, value \o <<"\\", c>>,
                               FALSE, line_continuation)
    ELSE IF line_continuation
    THEN IF c \in {"#", ";"}
         THEN parse_value_loop(buf, bump(buf, parse_comment(buf, p).p), value,
                               FALSE, TRUE)
         ELSE IF c = "\n" \/ c = "[" THEN POk(p, value)
         ELSE IF c = "\\" THEN parse_value_loop(buf, next, value, TRUE, FALSE)
         ELSE parse_value_loop(buf, next, Append(value, c), FALSE, FALSE)
    ELSE IF c = "\\" THEN parse_value_loop(buf, next, value, TRUE, FALSE)
    ELSE IF c = "\n" THEN POk(p, value)
    ELSE parse_value_loop(buf, next, Append(value, c), FALSE, FALSE)

parse_value_loop(buf, p, value, backslash, line_continuation) ==
    parse_value_turn(buf, p, value, backslash, line_continuation,
                     Pcur(buf, p), bump(buf, p))

parse_value(buf, p) == parse_value_loop(buf, p, <<>>, FALSE, FALSE)

\* The end of Parser::parse_entry: Ok((key, value)) of the key k and the
\* value v read.
entry_of(k, v) == POk(v.p, <<k.val, v.val>>)

\* Parser::parse_entry after the whitespace behind the key k, at p.
parse_entry_eq(buf, k, p) ==
    IF Pcur(buf, p) = None THEN PErr(p, "expected '=' after key, but found EOF")
    ELSE IF Pcur(buf, p) # "="
    THEN PErr(p, "expected '=' after key, but found char")
    ELSE entry_of(k, parse_value(
             buf, parse_until_none_of(buf, bump(buf, p), {" ", "\t"}, <<>>).p))

\* Parser::parse_entry after parse_key()? gave k.
parse_entry_key(buf, k) ==
    IF ~k.ok THEN k
    ELSE parse_entry_eq(buf, k, parse_until_none_of(buf, k.p, {" ", "\t"}, <<>>).p)

\* Parser::parse_entry: val is <<key, raw value>>.
parse_entry(buf, p) == parse_entry_key(buf, parse_key(buf, p))

\* Parser::parse_section_header after the name r was read.
section_name_of(buf, r) ==
    IF Pcur(buf, r.p) = None
    THEN PErr(r.p, "expected ']' as end of section header, but found EOF")
    ELSE IF Pcur(buf, r.p) # "]"
    THEN PErr(r.p, "expected ']' as end of section header, but found char")
    ELSE IF r.val = <<>>
    THEN PErr(bump(buf, r.p), "section header cannot be empty")
    ELSE POk(bump(buf, r.p), r.val)

\* Parser::parse_section_header
parse_section_header(buf, p) ==
    IF Pcur(buf, p) = None
    THEN PErr(p, "expected '[' as start of section header, but found EOF")
    ELSE IF Pcur(buf, p) # "["
    THEN PErr(p, "expected '[' as start of section header, but found char")
    ELSE section_name_of(
             buf, parse_until_any_of(buf, bump(buf, p), {"]", "\n"}, <<>>))

\* The while loop of Parser::parse_section, with the entries read so far.
RECURSIVE parse_section_loop(_, _, _)

\* entries.push(self.parse_entry()?) of the parsed entry e.
push_entry(buf, entries, e) ==
    IF ~e.ok THEN e
    ELSE parse_section_loop(buf, e.p, Append(entries, e.val))

parse_section_loop(buf, p, entries) ==
    IF Pcur(buf, p) = None \/ Pcur(buf, p) = "[" THEN POk(p, entries)
    ELSE IF Pcur(buf, p) \in {"#", ";"}
    THEN parse_section_loop(buf, parse_comment(buf, p).p, entries)
    ELSE IF is_ascii_whitespace(Pcur(buf, p))
    THEN parse_section_loop(buf, bump(buf, p), entries)
    ELSE push_entry(buf, entries, parse_entry(buf, p))

\* The end of Parser::parse_section: Ok((name, entries)).
section_of(h, r) == IF ~r.ok THEN r ELSE POk(r.p, <<h.val, r.val>>)

\* Parser::parse_section after parse_section_header()? gave h.
parse_section_entries(buf, h) ==
    IF ~h.ok THEN h ELSE section_of(h, parse_section_loop(buf, h.p, <<>>))

\* Parser::parse_section: val is <<name, entries>>.
parse_section(buf, p) == parse_section_entries(buf, parse_section_header(buf, p))

\* The for loop of parse_unit over the entries of one parsed section:
\* [ok, val (the unit), msg (of the Unquoting error)].
RECURSIVE append_parsed(_, _, _)

\* One turn of that loop, given v = EntryValue::try_from_raw(value).
append_parsed_value(u, section, entries, v) ==
    IF ~v.ok THEN Err(v.msg)
    ELSE append_parsed(append_entry_value(u, section, Head(entries)[1], v.val),
                       section, Tail(entries))

append_parsed(u, section, entries) ==
    IF entries = <<>> THEN Ok(u)
    ELSE append_parsed_value(u, section, entries, try_from_raw(Head(entries)[2]))

\* unit.sections.entry(section.clone()).or_insert(Entries::default())
ensure_section(u, section) ==
    [sections |-> or_insert(u.sections, section, default_entries)]

\* The while loop of Parser::parse_unit, with the unit built so far.
RECURSIVE parse_unit_loop(_, _, _)

\* The '[' arm of parse_unit once the entries of the section sec are
\* appended, with result a.
unit_appended(buf, sec, a) ==
    IF ~a.ok THEN PErr(sec.p, "failed unquoting value")
    ELSE parse_unit_loop(buf, sec.p, a.val)

\* The '[' arm of parse_unit, given sec = self.parse_section().
unit_section(buf, u, sec) ==
    IF ~sec.ok THEN sec
    ELSE unit_appended(buf, sec,
             append_parsed(ensure_section(u, sec.val[1]), sec.val[1], sec.val[2]))

parse_unit_loop(buf, p, u) ==
    IF Pcur(buf, p) = None THEN POk(p, u)
    ELSE IF Pcur(buf, p) \in {"#", ";"}
    THEN parse_unit_loop(buf, parse_comment(buf, p).p, u)
    ELSE IF Pcur(buf, p) = "["
    THEN unit_section(buf, u, parse_section(buf, p))
    ELSE IF is_ascii_whitespace(Pcur(buf, p))
    THEN parse_unit_loop(buf, bump(buf, p), u)
    ELSE PErr(p, "Expected comment or section")

\* Parser::parse_unit
parse_unit(buf, p) == parse_unit_loop(buf, p, new)

\* The Result of load_from_str: [ok, val (the unit), err (the ParseError)].
loaded(r) == [ok |-> r.ok, val |-> IF r.ok THEN r.val ELSE new, err |-> r.err]

\* SystemdUnit::load_from_str
load_from_str(data) == loaded(parse_unit(data, parser_new(data)))

-----------------------------------------------------------------------------
(* split.rs: the two tokenizers.  A tokenizer over the source src is the    *)
(* record [i]: src[i] is its current character `c`, or None past the end.   *)
(* A call to next returns [t, word, err]: the tokenizer afterwards, the     *)
(* word (or None), and whether the call returned from the Err arm of an     *)
(* escape sequence.                                                         *)

WHITESPACE == {" ", "\t", "\n", "\r"}

\* The Option<String> a call to next returns for the collected word.
some_word(word) == IF word = <<>> THEN None ELSE word

\* SplitStrv.c of the tokenizer t.
SplitStrv_c(src, t) == IF t.i <= Len(src) THEN src[t.i] ELSE None

SplitStrv_bump(src, t) == [i |-> IF t.i <= Len(src) THEN t.i + 1 ELSE t.i]

SplitStrv_new(src) == [i |-> 1]

\* SplitStrv::parse_until_none_of: the tokenizer after the skipped characters.
RECURSIVE SplitStrv_parse_until_none_of(_, _, _)
SplitStrv_parse_until_none_of(src, t, end) ==
    IF SplitStrv_c(src, t) = None \/ ~(SplitStrv_c(src, t) \in end) THEN t
    ELSE SplitStrv_parse_until_none_of(src, SplitStrv_bump(src, t), end)

\* The while loop of SplitStrv::next: one turn per call.
RECURSIVE SplitStrv_next_loop(_, _, _, _)
SplitStrv_next_loop(src, t, word, quote) ==
    IF SplitStrv_c(src, t) = None
    THEN [t |-> t, word |-> some_word(word), err |-> FALSE]
    ELSE IF quote # None
    THEN IF SplitStrv_c(src, t) = quote
         THEN SplitStrv_next_loop(src, SplitStrv_bump(src, t), word, None)
         ELSE SplitStrv_next_loop(src, SplitStrv_bump(src, t),
                                  Append(word, src[t.i]), quote)
    ELSE IF src[t.i] \in {"'", "\""}
    THEN SplitStrv_next_loop(src, SplitStrv_bump(src, t), word, src[t.i])
    ELSE IF src[t.i] \in WHITESPACE
    THEN [t |-> t, word |-> some_word(word), err |-> FALSE]
    ELSE SplitStrv_next_loop(src, SplitStrv_bump(src, t),
                             Append(word, src[t.i]), None)

SplitStrv_next(src, t) ==
    SplitStrv_next_loop(
        src, SplitStrv_parse_until_none_of(src, t, WHITESPACE), <<>>, None)

\* SplitWord.c of the tokenizer t.
SplitWord_c(src, t) == IF t.i <= Len(src) THEN src[t.i] ELSE None

SplitWord_bump(src, t) == [i |-> IF t.i <= Len(src) THEN t.i + 1 ELSE t.i]

SplitWord_new(src) == [i |-> 1]

\* SplitWord::parse_until_none_of: the tokenizer after the skipped characters.
RECURSIVE SplitWord_parse_until_none_of(_, _, _)
SplitWord_parse_until_none_of(src, t, end) ==
    IF SplitWord_c(src, t) = None \/ ~(SplitWord_c(src, t) \in end) THEN t
    ELSE SplitWord_parse_until_none_of(src, SplitWord_bump(src, t), end)

\* SplitWord::parse_until_any_of: [t, val] with the characters read in val.
RECURSIVE SplitWord_parse_until_any_of(_, _, _, _)
SplitWord_parse_until_any_of(src, t, end, acc) ==
    IF SplitWord_c(src, t) = None \/ SplitWord_c(src, t) \in end
    THEN [t |-> t, val |-> acc]
    ELSE SplitWord_parse_until_any_of(src, SplitWord_bump(src, t), end,
                                      Append(acc, src[t.i]))

\* The for loop of SplitWord::parse_unicode_escape: it runs max_chars times,
\* reading one digit each time and bumping after all but the last.  Returns
\* [ok, val (the digits), t].
RECURSIVE SplitWord_parse_unicode_digits(_, _, _, _, _)
SplitWord_parse_unicode_digits(src, t, code, max_chars, radix) ==
    IF Len(code) = max_chars THEN [ok |-> TRUE, val |-> code, t |-> t]
    ELSE IF SplitWord_c(src, t) = None
    THEN [ok |-> FALSE, val |-> code, t |-> t]
    ELSE IF radix = 16 /\ ~is_ascii_hexdigit(src[t.i])
    THEN [ok |-> FALSE, val |-> Append(code, src[t.i]), t |-> t]
    ELSE IF radix = 8 /\ (~is_ascii_digit(src[t.i]) \/ src[t.i] \in {"8", "9"})
    THEN [ok |-> FALSE, val |-> Append(code, src[t.i]), t |-> t]
    ELSE SplitWord_parse_unicode_digits(
             src,
             IF Len(code) + 1 # max_chars THEN SplitWord_bump(src, t) ELSE t,
             Append(code, src[t.i]), max_chars, radix)

\* The end of SplitWord::parse_unicode_escape: the character of code point
\* ucp.  Returns [ok, val (the character), t].
SplitWord_unicode_char(ucp, t) ==
    IF ucp = 0 \/ ~is_scalar_value(ucp)
    THEN [ok |-> FALSE, val |-> None, t |-> t]
    ELSE [ok |-> TRUE, val |-> chr(ucp), t |-> t]

\* The digits d read by the loop: its error, or the character they spell.
SplitWord_unicode_digits(d, radix) ==
    IF ~d.ok THEN [ok |-> FALSE, val |-> None, t |-> d.t]
    ELSE SplitWord_unicode_char(from_str_radix(d.val, radix), d.t)

SplitWord_parse_unicode_escape(src, t, max_chars, radix) ==
    SplitWord_unicode_digits(
        SplitWord_parse_unicode_digits(src, t, <<>>, max_chars, radix), radix)

\* A faulty arm that rejects the escape sequence.
SplitWord_no_char(r, t) == [ok |-> FALSE, val |-> None, t |-> t]

\* An escape sequence of one character.
SplitWord_one_char(r, t) == [ok |-> TRUE, val |-> r, t |-> t]

\* SplitWord::parse_escape_sequence with the character after the backslash
\* current.  Returns [ok, val (the character), t].
SplitWord_parse_escape_sequence(src, t) ==
    IF SplitWord_c(src, t) = None THEN [ok |-> FALSE, val |-> None, t |-> t]
    ELSE CASE src[t.i] = "a"  -> SplitWord_one_char("^G", t)
           [] src[t.i] = "b"  -> SplitWord_one_char("^H", t)
           [] src[t.i] = "f"  -> SplitWord_one_char("\f", t)
           [] src[t.i] = "n"  -> SplitWord_one_char("\n", t)
           [] src[t.i] = "r"  -> SplitWord_one_char("\r", t)
           [] src[t.i] = "t"  -> SplitWord_one_char("\t", t)
           [] src[t.i] = "v"  -> SplitWord_one_char("^K", t)
           [] src[t.i] = "\\" -> SplitWord_one_char("\\", t)
           [] src[t.i] = "\"" -> SplitWord_one_char("\"", t)
           [] src[t.i] = "'"  -> SplitWord_one_char("'", t)
           [] src[t.i] = "s"  -> SplitWord_one_char(" ", t)
           [] src[t.i] = "x"  ->
                SplitWord_parse_unicode_escape(src, SplitWord_bump(src, t), 2, 16)
           [] src[t.i] = "u"  ->
                SplitWord_parse_unicode_escape(src, SplitWord_bump(src, t), 4, 16)
           [] src[t.i] = "U"  ->
                SplitWord_parse_unicode_escape(src, SplitWord_bump(src, t), 8, 16)
           [] src[t.i] \in {"0", "1", "2", "3", "4", "5", "6", "7"}
                              -> SplitWord_parse_unicode_escape(src, t, 3, 8)
           [] OTHER           -> SplitWord_one_char(src[t.i], t)

\* The while loop of SplitWord::next: one turn per call.
RECURSIVE SplitWord_next_loop(_, _, _, _, _)

\* The `backslash` arm of the loop, given the parsed escape sequence e.
SplitWord_escaped(src, word, quote, e) ==
    IF ~e.ok THEN [t |-> e.t, word |-> None, err |-> TRUE]
    ELSE SplitWord_next_loop(src, SplitWord_bump(src, e.t),
                             Append(word, e.val), quote, FALSE)

\* The inside-quotes arm of the loop, given the characters r read up to the
\* quote character or a backslash.
SplitWord_quoted(src, word, quote, r) ==
    IF SplitWord_c(src, r.t) = quote
    THEN SplitWord_next_loop(src, SplitWord_bump(src, r.t), word \o r.val,
                             None, FALSE)
    ELSE SplitWord_next_loop(src, SplitWord_bump(src, r.t), word \o r.val,
                             quote, SplitWord_c(src, r.t) = "\\")

SplitWord_next_loop(src, t, word, quote, backslash) ==
    IF SplitWord_c(src, t) = None
    THEN [t |-> t, word |-> some_word(word), err |-> FALSE]
    ELSE IF backslash
    THEN SplitWord_escaped(src, word, quote,
                           SplitWord_parse_escape_sequence(src, t))
    ELSE IF quote # None
    THEN SplitWord_quoted(
             src, word, quote,
             SplitWord_parse_until_any_of(src, t, {quote, "\\"}, <<>>))
    ELSE IF src[t.i] \in {"'", "\""}
    THEN SplitWord_next_loop(src, SplitWord_bump(src, t), word, src[t.i], FALSE)
    ELSE IF src[t.i] = "\\"
    THEN SplitWord_next_loop(src, SplitWord_bump(src, t), word, None, TRUE)
    ELSE IF src[t.i] \in WHITESPACE
    THEN [t |-> t, word |-> some_word(word), err |-> FALSE]
    ELSE SplitWord_next_loop(src, SplitWord_bump(src, t),
                             Append(word, src[t.i]), None, FALSE)

SplitWord_next(src, t) ==
    SplitWord_next_loop(
        src, SplitWord_parse_until_none_of(src, t, WHITESPACE), <<>>, None,
        FALSE)

\* Iterator::collect on a SplitStrv: the words next returns before it
\* returns None.
RECURSIVE SplitStrv_collect_from(_, _)

SplitStrv_collected(src, r) ==
    IF r.word = None THEN <<>>
    ELSE <<r.word>> \o SplitStrv_collect_from(src, r.t)

SplitStrv_collect_from(src, t) ==
    SplitStrv_collected(src, SplitStrv_next(src, t))

SplitStrv_collect(src) == SplitStrv_collect_from(src, SplitStrv_new(src))

\* Iterator::collect on a SplitWord.
RECURSIVE SplitWord_collect_from(_, _)

SplitWord_collected(src, r) ==
    IF r.word = None THEN <<>>
    ELSE <<r.word>> \o SplitWord_collect_from(src, r.t)

SplitWord_collect_from(src, t) ==
    SplitWord_collected(src, SplitWord_next(src, t))

SplitWord_collect(src) == SplitWord_collect_from(src, SplitWord_new(src))

-----------------------------------------------------------------------------
(* The inputs of the model *)

\* Most key/value entries a unit grows to by append_entry, set_entry and
\* merge_from.
MaxEntries == 2

\* Most lines of a text composed from Lines.
MaxLines == 3

\* Longest logical string given to from_unquoted in SpecQuote.
MaxStrLen == 2

Sections == {<<"X">>, <<"Y">>}

Keys == {<<"k">>, <<"j">>}

Values == {<<>>, <<"a">>, <<" ", "a">>}

\* Lines that unit-file texts are composed of.
Lines ==
    { <<"[", "X", "]", "\n">>,
      <<"[", "Y", "]", "\n">>,
      <<"k", "=", "a", "\n">>,
      <<"j", "=", "b", "\n">>,
      <<"k", "=", "\n">> }

\* All texts of at most n lines.
RECURSIVE LineTexts(_)
LineTexts(n) ==
    IF n = 0 THEN {<<>>}
    ELSE LET shorter == LineTexts(n - 1) IN
         shorter \cup {l \o t : l \in Lines, t \in shorter}

\* Whole texts: the reset examples, a comment, blanks around '=', quoting, a
\* line continuation, a malformed escape, an unterminated header, a key that
\* is not alphanumeric, a header that reappears, a key between two values of
\* another key.
ExampleTexts ==
    { <<"[", "X", "]", "\n", "k", "=", "a", "\n", "k", "=", "b", "\n",
        "k", "=", "\n", "k", "=", "c", "\n">>,
      <<"[", "X", "]", "\n", "k", "=", "a", "\n", "k", "=", "\n",
        "k", "=", "\n">>,
      <<"#", " ", "c", "\n", "[", "X", "]", "\n", "k", " ", "=", " ",
        "'", "a", " ", "b", "'", "\n", "\n", "[", "Y", "]", "\n">>,
      <<"[", "X", "]", "\n", "k", "=", "\\", "\n", "a", "\n">>,
      <<"[", "X", "]", "\n", "k", "=", "\\", "x", "0", "0", "\n">>,
      <<"[", "X">>,
      <<"[", "X", "]", "\n", "k", "]", "=", "a", "\n">>,
      <<"[", "X", "]", "\n", "k", "=", "a", "\n", "[", "Y", "]", "\n",
        "j", "=", "b", "\n", "[", "X", "]", "\n", "k", "=", "b", "\n">>,
      <<"[", "X", "]", "\n", "k", "=", "a", "\n", "j", "=", "b", "\n",
        "k", "=", "b", "\n">> }

Texts == LineTexts(MaxLines) \cup ExampleTexts

\* The units merge_from is given: loaded from text.
OtherTexts ==
    { <<"[", "Y", "]", "\n", "k", "=", "b", "\n",
        "[", "X", "]", "\n", "k", "=", "a", "\n">>,
      <<"[", "X", "]", "\n", "k", "=", "a", "\n">> }

Others == {load_from_str(t).val : t \in OtherTexts}

\* load_from_str on every text of Texts.
Loaded == [data \in Texts |-> load_from_str(data)]

\* All strings over alphabet of length at most n.
RECURSIVE StringsUpTo(_, _)
StringsUpTo(alphabet, n) ==
    IF n = 0 THEN {<<>>}
    ELSE LET shorter == StringsUpTo(alphabet, n - 1) IN
         shorter \cup {<<c>> \o t : c \in alphabet, t \in shorter}

\* Characters of the logical strings: plain, quotes, backslash, blanks,
\* control characters with and without a short escape, NUL, DEL, non-ASCII.
QuoteAlphabet ==
    {"a", "'", "\"", "\\", " ", "\n", "^A", "^@", "^?", "chr(128)", "chr(233)"}

Strings == StringsUpTo(QuoteAlphabet, MaxStrLen)

\* Longest value text composed from ValueAlphabet in SpecValue.
MaxValueLen == 4

\* Characters of the value texts: plain, backslash, newline, a comment
\* marker and the start of a section header.
ValueAlphabet == {"a", "\\", "\n", "#", "["}

\* Whole value texts: a continuation between two words, comment lines with
\* '#' and ';' after a continuation, a section header after a continuation,
\* a continuation after a continuation, an escape after a continuation.
ExampleValues ==
    { <<"f", "o", "o", "\\", "\n", "b", "a", "r">>,
      <<"a", "\\", "\n", "#", "c", "\n", "b">>,
      <<"a", "\\", "\n", ";", "c", "\n", "#", "\n", "b", "\n", "c">>,
      <<"a", "\\", "\n", "#", "c", "\n", "[", "Y", "]", "\n", "j", "=", "b">>,
      <<"a", "\\", "\n", "[", "Y", "]", "\n", "j", "=", "b">>,
      <<"a", "\\", "\n", "\\", "\n", "b">>,
      <<"a", "\\", "\n", "\\", "s", "b">>,
      <<"a", "\\", "\n", "#", "c", "\n", "\n", "j", "=", "b">> }

ValueTexts == StringsUpTo(ValueAlphabet, MaxValueLen) \cup ExampleValues

\* The unit text whose section X has the one entry k with the value text v.
EntryText(v) == <<"[", "X", "]", "\n", "k", "=">> \o v \o <<"\n">>

\* Longest literal composed from an alphabet in SpecUnquote.
MaxLitLen == 4

\* Characters of the literals with escapes: backslash, the hex prefix, octal
\* and hex digits, a digit that is not octal, a letter that is no digit.
EscapeAlphabet == {"\\", "x", "0", "1", "4", "8", "k"}

\* Characters of the literals with quotes: both quote characters, a blank,
\* a plain character, backslash.
QuotingAlphabet == {"'", "\"", " ", "a", "\\"}

\* Whole literals: \u and \U escapes that are well-formed, too short, with
\* a non-hex digit, of value zero, of a surrogate, above the last scalar
\* value; an escape after plain text and inside quotes; an unknown escape
\* letter after words; a double quote after a blank inside single quotes;
\* a quote character inside a word and a quoted blank.
ExampleLiterals ==
    { <<"\\", "u", "0", "0", "4", "1">>,
      <<"\\", "u", "0", "0", "4">>,
      <<"\\", "u", "0", "0", "k", "1">>,
      <<"\\", "u", "0", "0", "0", "0">>,
      <<"\\", "u", "d", "8", "0", "0">>,
      <<"\\", "U", "0", "0", "0", "0", "0", "0", "4", "1">>,
      <<"\\", "U", "0", "0", "0", "0", "0", "0", "4">>,
      <<"\\", "U", "0", "0", "0", "0", "d", "8", "0", "0">>,
      <<"\\", "U", "0", "0", "1", "1", "0", "0", "0", "0">>,
      <<"\\", "U", "0", "0", "0", "0", "0", "0", "0", "0">>,
      <<"a", "\\", "n", "\\", "x", "4", "1", "\\", "x", "0", "0">>,
      <<"'", "a", "\\", "1", "0", "1", "\\", "1", "8", "1", "'">>,
      <<"a", " ", "\"", "b", " ", "c", "\"", " ", "d", "\\", "e">>,
      <<"'", "a", " ", "\"", "b", "'">>,
      <<"a", "'", "b", " ", "'", "c", " ", "d", "'", " ", "e">> }

Literals ==
    StringsUpTo(EscapeAlphabet, MaxLitLen)
        \cup StringsUpTo(QuotingAlphabet, MaxLitLen) \cup ExampleLiterals

\* Longest run of characters composed from an alphabet in SpecLoad.
MaxTextLen == 4

\* Characters of the entry lines: a key character, '=', a hyphen, a blank,
\* newline, a character no key may have.
EntryAlphabet == {"k", "=", "-", " ", "\n", "]"}

\* Characters behind the '[' of a section header.
HeaderAlphabet == {"Y", "\n", "k", "=", "]"}

\* Well-formed texts that end at the start of a line.
Prefixes ==
    { <<>>,
      <<"[", "X", "]", "\n">>,
      <<"[", "X", "]", "\n", "k", "=", "a", "\n">>,
      <<"#", " ", "c", "\n">> }

\* Unit texts: entry lines in section X, and a header opened after a prefix.
LoadTexts ==
    {<<"[", "X", "]", "\n">> \o t : t \in StringsUpTo(EntryAlphabet, MaxTextLen)}
        \cup {pre \o <<"[">> \o t :
                  pre \in Prefixes, t \in StringsUpTo(HeaderAlphabet, MaxTextLen)}

\* Longest source composed from SplitAlphabet in SpecSplit.
MaxSrcLen == 4

\* Most calls to next on one tokenizer.
MaxCalls == 4

\* Characters of the sources: a plain character that is no escape letter
\* and no hex digit, a blank, a quote character, backslash, the hex prefix.
SplitAlphabet == {"k", " ", "\"", "\\", "x"}

\* Whole sources: three words with a quoted blank and an unknown escape
\* letter, single quotes, well-formed numeric escapes, a known escape
\* letter, an escape of value zero and a bad octal digit before a word.
ExampleSources ==
    { <<"a", " ", "\"", "b", " ", "c", "\"", " ", "d", "\\", "e">>,
      <<"'", "a", " ", "\"", "'", " ", "b">>,
      <<"\\", "x", "4", "1", "\\", "1", "0", "1", " ", "\\", "n">>,
      <<"\\", "x", "0", "0", " ", "b">>,
      <<"a", "\\", "1", "8", "1", " ", "b">> }

Sources == StringsUpTo(SplitAlphabet, MaxSrcLen) \cup ExampleSources

-----------------------------------------------------------------------------
(* The document life cycle: a unit is created by new() or load_from_str and *)
(* then mutated.  load_from_str builds a unit of its own, so it acts on the *)
(* fresh state only; a later call would start the same runs again.          *)

\* The record of an operation: its name and arguments, for load_from_str
\* its outcome, and `before`, what section_entries gave for the section the
\* operation names (`from` for rename_section) when it was called.
Call(kind, section, key, value, to, data, ok, err, before) ==
    [kind |-> kind, section |-> section, key |-> key, value |-> value,
     to |-> to, data |-> data, ok |-> ok, err |-> err, before |-> before]

\* The number of key/value entries of a unit.
RECURSIVE count_entries(_)
count_entries(sections) ==
    IF sections = <<>> THEN 0
    ELSE Len(Head(sections).value.data) + count_entries(Tail(sections))

\* EntryValue::default()
default_value == [raw |-> <<>>, unquoted |-> <<>>]

Pending == [ok |-> FALSE, val |-> <<>>, msg |-> "pending"]

\* No call to next yet on either tokenizer.
NoYields == [strv |-> <<>>, word |-> <<>>]

Alive == pc \in {"new", "ready"}

Init ==
    /\ unit = new
    /\ other \in Others
    /\ op = Call("new", <<>>, <<>>, <<>>, <<>>, <<>>, TRUE, NoError, <<>>)
    /\ pc = "new"
    /\ s = <<>>
    /\ ev = default_value
    /\ unq = Pending
    /\ ret = Pending
    /\ split_strv = SplitStrv_new(s)
    /\ split_word = SplitWord_new(s)
    /\ out = NoYields

LoadFromStr(data) ==
    /\ pc = "new"
    /\ unit' = Loaded[data].val
    /\ pc' = IF Loaded[data].ok THEN "ready" ELSE "failed"
    /\ op' = Call("load_from_str", <<>>, <<>>, <<>>, <<>>, data,
                  Loaded[data].ok, Loaded[data].err, <<>>)
    /\ UNCHANGED <<other, s, ev, unq, ret, split_strv, split_word, out>>

AppendEntry(section, key, value) ==
    /\ Alive
    /\ count_entries(unit.sections) < MaxEntries
    /\ unit' = append_entry(unit, section, key, value)
    /\ pc' = "ready"
    /\ op' = Call("append_entry", section, key, value, <<>>, <<>>, TRUE, NoError,
                  section_entries(unit, section))
    /\ UNCHANGED <<other, s, ev, unq, ret, split_strv, split_word, out>>

SetEntry(section, key, value) ==
    /\ Alive
    /\ \/ lookup_all(unit, section, key) # <<>>
       \/ count_entries(unit.sections) < MaxEntries
    /\ unit' = set_entry(unit, section, key, value)
    /\ pc' = "ready"
    /\ op' = Call("set_entry", section, key, value, <<>>, <<>>, TRUE, NoError,
                  section_entries(unit, section))
    /\ UNCHANGED <<other, s, ev, unq, ret, split_strv, split_word, out>>

RenameSection(from, to) ==
    /\ Alive
    /\ unit' = rename_section(unit, from, to)
    /\ pc' = "ready"
    /\ op' = Call("rename_section", from, <<>>, <<>>, to, <<>>, TRUE, NoError,
                  section_entries(unit, from))
    /\ UNCHANGED <<other, s, ev, unq, ret, split_strv, split_word, out>>

MergeFrom ==
    /\ Alive
    /\ count_entries(unit.sections) + count_entries(other.sections) <= MaxEntries
    /\ unit' = merge_from(unit, other)
    /\ pc' = "ready"
    /\ op' = Call("merge_from", <<>>, <<>>, <<>>, <<>>, <<>>, TRUE, NoError, <<>>)
    /\ UNCHANGED <<other, s, ev, unq, ret, split_strv, split_word, out>>

Next ==
    \/ \E data \in Texts : LoadFromStr(data)
    \/ \E section \in Sections, key \in Keys, value \in Values :
           AppendEntry(section, key, value)
    \/ \E section \in Sections, key \in Keys, value \in Values :
           SetEntry(section, key, value)
    \/ \E from \in Sections, to \in Sections : RenameSection(from, to)
    \/ MergeFrom

Spec == Init /\ [][Next]_vars

-----------------------------------------------------------------------------
(* The codec round trip: a logical string is made an EntryValue, whose      *)
(* literal is then decoded.                                                 *)

InitQuote ==
    /\ unit = new
    /\ other = new
    /\ op = Call("new", <<>>, <<>>, <<>>, <<>>, <<>>, TRUE, NoError, <<>>)
    /\ pc = "input"
    /\ s \in Strings
    /\ ev = default_value
    /\ unq = Pending
    /\ ret = Pending
    /\ split_strv = SplitStrv_new(s)
    /\ split_word = SplitWord_new(s)
    /\ out = NoYields

FromUnquoted ==
    /\ pc = "input"
    /\ ev' = from_unquoted(s)
    /\ pc' = "built"
    /\ UNCHANGED <<unit, other, op, s, unq, ret, split_strv, split_word, out>>

TryUnquote ==
    /\ pc = "built"
    /\ unq' = try_unquote(ev)
    /\ pc' = "done"
    /\ UNCHANGED <<unit, other, op, s, ev, ret, split_strv, split_word, out>>

NextQuote == FromUnquoted \/ TryUnquote

SpecQuote == InitQuote /\ [][NextQuote]_vars

-----------------------------------------------------------------------------
(* The value scanner: parse_value reads the value text s from its start,    *)
(* and load_from_str reads the unit whose entry k of section X has that     *)
(* value text.                                                              *)

InitValue ==
    /\ unit = new
    /\ other = new
    /\ op = Call("new", <<>>, <<>>, <<>>, <<>>, <<>>, TRUE, NoError, <<>>)
    /\ pc = "text"
    /\ s \in ValueTexts
    /\ ev = default_value
    /\ unq = Pending
    /\ ret = Pending
    /\ split_strv = SplitStrv_new(s)
    /\ split_word = SplitWord_new(s)
    /\ out = NoYields

ParseValue ==
    /\ pc = "text"
    /\ ret' = parse_value(s, parser_new(s))
    /\ pc' = "scanned"
    /\ UNCHANGED <<unit, other, op, s, ev, unq, split_strv, split_word, out>>

LoadEntry ==
    /\ pc = "scanned"
    /\ unit' = load_from_str(EntryText(s)).val
    /\ pc' = IF load_from_str(EntryText(s)).ok THEN "loaded" ELSE "failed"
    /\ op' = Call("load_from_str", <<>>, <<>>, <<>>, <<>>, EntryText(s),
                  load_from_str(EntryText(s)).ok,
                  load_from_str(EntryText(s)).err, <<>>)
    /\ UNCHANGED <<other, s, ev, unq, ret, split_strv, split_word, out>>

NextValue == ParseValue \/ LoadEntry

SpecValue == InitValue /\ [][NextValue]_vars

-----------------------------------------------------------------------------
(* The decoder: unquote_value reads the literal s.                          *)

InitUnquote ==
    /\ unit = new
    /\ other = new
    /\ op = Call("new", <<>>, <<>>, <<>>, <<>>, <<>>, TRUE, NoError, <<>>)
    /\ pc = "literal"
    /\ s \in Literals
    /\ ev = default_value
    /\ unq = Pending
    /\ ret = Pending
    /\ split_strv = SplitStrv_new(s)
    /\ split_word = SplitWord_new(s)
    /\ out = NoYields

UnquoteValue ==
    /\ pc = "literal"
    /\ ret' = unquote_value(s)
    /\ pc' = "unquoted"
    /\ UNCHANGED <<unit, other, op, s, ev, unq, split_strv, split_word, out>>

NextUnquote == UnquoteValue

SpecUnquote == InitUnquote /\ [][NextUnquote]_vars

-----------------------------------------------------------------------------
(* The parser: load_from_str reads the unit text s.                         *)

InitLoad ==
    /\ unit = new
    /\ other = new
    /\ op = Call("new", <<>>, <<>>, <<>>, <<>>, <<>>, TRUE, NoError, <<>>)
    /\ pc = "text"
    /\ s \in LoadTexts
    /\ ev = default_value
    /\ unq = Pending
    /\ ret = Pending
    /\ split_strv = SplitStrv_new(s)
    /\ split_word = SplitWord_new(s)
    /\ out = NoYields

LoadText ==
    /\ pc = "text"
    /\ unit' = load_from_str(s).val
    /\ pc' = IF load_from_str(s).ok THEN "loaded" ELSE "failed"
    /\ op' = Call("load_from_str", <<>>, <<>>, <<>>, <<>>, s,
                  load_from_str(s).ok, load_from_str(s).err, <<>>)
    /\ UNCHANGED <<other, s, ev, unq, ret, split_strv, split_word, out>>

NextLoad == LoadText

SpecLoad == InitLoad /\ [][NextLoad]_vars

-----------------------------------------------------------------------------
(* The tokenizers: a SplitStrv and a SplitWord are made over the source s   *)
(* and next is called on each of them, again and again; out keeps what the  *)
(* calls returned, as records [word, err].                                  *)

InitSplit ==
    /\ unit = new
    /\ other = new
    /\ op = Call("new", <<>>, <<>>, <<>>, <<>>, <<>>, TRUE, NoError, <<>>)
    /\ pc = "source"
    /\ s \in Sources
    /\ ev = default_value
    /\ unq = Pending
    /\ ret = Pending
    /\ split_strv = SplitStrv_new(s)
    /\ split_word = SplitWord_new(s)
    /\ out = NoYields

\* What a call to next returned, without the tokenizer.
yield(r) == [word |-> r.word, err |-> r.err]

StrvNext ==
    /\ pc = "source"
    /\ Len(out.strv) < MaxCalls
    /\ split_strv' = SplitStrv_next(s, split_strv).t
    /\ out' = [out EXCEPT
                  !.strv = Append(@, yield(SplitStrv_next(s, split_strv)))]
    /\ UNCHANGED <<unit, other, op, pc, s, ev, unq, ret, split_word>>

WordNext ==
    /\ pc = "source"
    /\ Len(out.word) < MaxCalls
    /\ split_word' = SplitWord_next(s, split_word).t
    /\ out' = [out EXCEPT
                  !.word = Append(@, yield(SplitWord_next(s, split_word)))]
    /\ UNCHANGED <<unit, other, op, pc, s, ev, unq, ret, split_strv>>

NextSplit == StrvNext \/ WordNext

SpecSplit == InitSplit /\ [][NextSplit]_vars

-----------------------------------------------------------------------------
(* Properties.  A property of one operation is a property of the steps that *)
(* the operation takes: op' names the operation, unit is the document       *)
(* before it and unit' the document after it.                               *)

\* A section name no input of the model uses.
Missing == <<"Z">>

SectionNames == Sections \cup {Missing}

X == <<"X">>
Y == <<"Y">>
k == <<"k">>
j == <<"j">>

\* C1: for every logical string s, the EntryValue built by from_unquoted(s)
\* decodes again: try_unquote() returns Ok(s), which is also the cached
\* unquoted field, i.e. unquote_value(quote_value(s)) = Ok(s).
C1_RoundTrip ==
    pc = "done" => (unq = Ok(s) /\ unq.ok /\ unq.val = ev.unquoted)

\* load_from_str of text succeeds and what it loads is written as text again.
Reserializes(text) ==
    /\ load_from_str(text).ok
    /\ write_to(load_from_str(text).val) = text

\* C2: the text written by a document that load_from_str or a sequence of
\* append_entry / set_entry / rename_section / merge_from calls produced
\* loads again, and the reloaded document writes the same text.
C2_Reserialize == Alive => Reserializes(write_to(unit))

\* The reference model of C3: the list kept for one (section, key).
RefAppend(list, v) == Append(list, v)

RefSet(list, v) ==
    IF list = <<>> THEN <<v>> ELSE [list EXCEPT ![Len(list)] = v]

\* The values that the pairs of key hold, in the order of pairs.
RECURSIVE values_with_key(_, _)
values_with_key(pairs, key) ==
    IF pairs = <<>> THEN <<>>
    ELSE (IF Head(pairs)[1] = key THEN <<Head(pairs)[2]>> ELSE <<>>)
         \o values_with_key(Tail(pairs), key)

\* C3: lookup_all refines the reference model: an append_entry step pushes
\* the value at the end of the list of its (section, key), a set_entry step
\* replaces the last element of that list (or pushes it on an empty list),
\* and the list of every other (section, key) stays as it is; so values come
\* back oldest first and a value equal to an earlier one is kept.
C3_Reference ==
    [][op'.kind \in {"append_entry", "set_entry"} =>
        \A S \in SectionNames, K \in Keys :
            lookup_all(unit', S, K) =
                IF S # op'.section \/ K # op'.key THEN lookup_all(unit, S, K)
                ELSE IF op'.kind = "append_entry"
                THEN RefAppend(lookup_all(unit, S, K), op'.value)
                ELSE RefSet(lookup_all(unit, S, K), op'.value)]_vars

\* set_entry has replaced the last of two values by a value equal to the
\* first one.
C3_Witness ==
    /\ op.kind = "set_entry"
    /\ values_with_key(op.before, op.key) = << <<"a">>, <<>> >>
    /\ op.value = <<"a">>
    /\ lookup_all(unit, op.section, op.key) = << <<"a">>, <<"a">> >>

\* The unit u with data as the entries of section (section exists in u).
with_data(u, section, data) ==
    [sections |->
        [i \in 1..Len(u.sections) |->
            IF u.sections[i].key = section
            THEN [key |-> section, value |-> [data |-> data]]
            ELSE u.sections[i]]]

\* The position of the last pair of key in data.
last_index(data, key) ==
    CHOOSE i \in 1..Len(data) :
        data[i].key = key /\ \A i2 \in (i + 1)..Len(data) : data[i2].key # key

\* data with the last value of key replaced where it stands (appended if the
\* key has no value).
ReplacedInPlace(data, key, value) ==
    IF ~contains_key(data, key) THEN append(data, key, value)
    ELSE [data EXCEPT ![last_index(data, key)].value = value]

\* The pairs of key with the given values.
PairsOf(key, values) ==
    [i \in 1..Len(values) |-> [key |-> key, value |-> values[i]]]

\* data with the pairs of key taken out and put behind the other pairs, the
\* last value of key replaced.
MovedBehind(data, key, value) ==
    remove_all(data, key) \o PairsOf(key, RefSet(get_all(data, key), value))

\* A set_entry step leaves the section with the entries `data`: they are
\* what section_entry_values and section_entries iterate, and the sections
\* that write_to walks are those from before the step with `data` in the
\* place of the section.
SetEntryGives(data) ==
    /\ get_entries(unit', op'.section).data = data
    /\ unit'.sections =
           with_data(ensure_section(unit, op'.section), op'.section, data).sections

\* C4 as stated: set_entry replaces the last value of key in place: every
\* other entry of the section keeps its position in section_entries and in
\* write_to.
C4_InPlace ==
    [][op'.kind = "set_entry" =>
        SetEntryGives(ReplacedInPlace(get_entries(unit, op'.section).data,
                                      op'.key, from_unquoted(op'.value)))]_vars

\* C4 amended: set_entry replaces the last value of key and keeps the earlier
\* values of key in their order, but the entries of key move behind the
\* entries of the other keys, which keep their order; the other sections
\* stay as they are.
C4_MovedBehind ==
    [][op'.kind = "set_entry" =>
        SetEntryGives(MovedBehind(get_entries(unit, op'.section).data,
                                  op'.key, from_unquoted(op'.value)))]_vars

\* set_entry on a key whose two values had another key's entry between them.
C4_Witness ==
    /\ op.kind = "set_entry"
    /\ Len(op.before) = 3
    /\ op.before[1][1] = op.key
    /\ op.before[2][1] # op.key
    /\ op.before[3] = <<op.key, <<"b">>>>
    /\ op.value = <<"a">>
    /\ section_entries(unit, op.section) =
           <<op.before[2], op.before[1], <<op.key, <<"a">>>>>>

\* The values of all behind its last empty string (all of them if none is
\* empty).
AfterLastEmpty(all) ==
    IF \A i \in 1..Len(all) : all[i] # <<>> THEN all
    ELSE SubSeq(all,
                1 + (CHOOSE i \in 1..Len(all) :
                        all[i] = <<>> /\ \A i2 \in (i + 1)..Len(all) : all[i2] # <<>>),
                Len(all))

\* C5: lookup_all_with_reset gives the values of lookup_all behind the last
\* empty one, in order, and no empty string: [a,b,"",c] gives [c], [a,"",""]
\* gives [], [a,b] gives [a,b], a missing section or key gives [].
C5_Reset ==
    \A S \in SectionNames, K \in Keys :
        /\ lookup_all_with_reset(unit, S, K) = AfterLastEmpty(lookup_all(unit, S, K))
        /\ \A i \in 1..Len(lookup_all_with_reset(unit, S, K)) :
               lookup_all_with_reset(unit, S, K)[i] # <<>>
        /\ lookup_all(unit, S, K) = << <<"a">>, <<"b">>, <<>>, <<"c">> >>
               => lookup_all_with_reset(unit, S, K) = << <<"c">> >>
        /\ lookup_all(unit, S, K) = << <<"a">>, <<>>, <<>> >>
               => lookup_all_with_reset(unit, S, K) = <<>>
        /\ lookup_all(unit, S, K) = << <<"a">>, <<"b">> >>
               => lookup_all_with_reset(unit, S, K) = << <<"a">>, <<"b">> >>
        /\ ~has_key(unit, S, K) => lookup_all_with_reset(unit, S, K) = <<>>

\* The document holds [a,b,"",c] under one key and the reset lookup gives [c].
C5_Witness ==
    /\ lookup_all(unit, X, k) = << <<"a">>, <<"b">>, <<>>, <<"c">> >>
    /\ lookup_all_with_reset(unit, X, k) = << <<"c">> >>

\* C6: rename_section(from, to) is a no-op when `from` does not exist or has
\* no entries: the document afterwards equals the document before.
C6_NoOp ==
    [][op'.kind = "rename_section" /\ op'.before = <<>> => unit' = unit]_vars

\* A rename_section step has moved the entries of `from` behind those of
\* `to`, and `from` no longer reports entries.
Renamed(from, to) ==
    /\ section_entries(unit', to) =
           section_entries(unit, to) \o section_entries(unit, from)
    /\ section_entry_values(unit', to) =
           section_entry_values(unit, to) \o section_entry_values(unit, from)
    /\ ~has_section(unit', from)
    /\ section_entries(unit', from) = <<>>
    /\ \A K \in Keys :
           /\ lookup_all(unit', from, K) = <<>>
           /\ lookup_last(unit', from, K) = None
           /\ ~has_key(unit', from, K)

\* C7 as stated: for all section names X and Y with X holding an entry,
\* after rename_section(X, Y) the entries of Y are Y's previous entries
\* followed by X's pairs in their order, and X no longer reports entries.
C7_Renamed ==
    [][op'.kind = "rename_section" /\ op'.before # <<>> =>
        Renamed(op'.section, op'.to)]_vars

\* C7 amended: the same, for section names X and Y that differ.
C7_RenamedToOther ==
    [][op'.kind = "rename_section" /\ op'.before # <<>> /\ op'.section # op'.to =>
        Renamed(op'.section, op'.to)]_vars

\* rename_section has moved two entries behind an entry that `to` held.
C7_Witness ==
    /\ op.kind = "rename_section"
    /\ op.section # op.to
    /\ Len(op.before) = 2
    /\ Len(section_entries(unit, op.to)) = 3
    /\ SubSeq(section_entries(unit, op.to), 2, 3) = op.before
    /\ ~has_section(unit, op.section)

C9_NonEmpty ==
    Alive => \A name \in SectionNames :
                 has_section(unit, name) <=> section_entries(unit, name) # <<>>

\* The section names of a unit, in iteration order.
names_of(u) == [i \in 1..Len(u.sections) |-> u.sections[i].key]

\* The number of places where pat stands in text.
occurrences(text, pat) ==
    Cardinality({i \in 1..Len(text) :
                    /\ i + Len(pat) - 1 <= Len(text)
                    /\ SubSeq(text, i, i + Len(pat) - 1) = pat})

\* The header line of a section name.
header_line(name) == <<"[">> \o name \o <<"]", "\n">>

\* The first index from i on where text has ']' or a line end (or ends).
name_end(text, i) ==
    IF \A e \in i..Len(text) : text[e] \notin {"]", "\n"} THEN Len(text) + 1
    ELSE CHOOSE e \in i..Len(text) :
             /\ text[e] \in {"]", "\n"}
             /\ \A e2 \in i..(e - 1) : text[e2] \notin {"]", "\n"}

\* The names of the header lines of text from index i on, in text order.
RECURSIVE headers_from(_, _)
headers_from(text, i) ==
    IF i > Len(text) THEN <<>>
    ELSE IF text[i] = "[" /\ (i = 1 \/ text[i - 1] = "\n")
    THEN <<SubSeq(text, i + 1, name_end(text, i) - 1)>> \o headers_from(text, i + 1)
    ELSE headers_from(text, i + 1)

\* names without the repetitions of a name seen before.
RECURSIVE first_seen(_)
first_seen(names) ==
    IF names = <<>> THEN <<>>
    ELSE IF \E i \in 1..(Len(names) - 1) : names[i] = names[Len(names)]
    THEN first_seen(SubSeq(names, 1, Len(names) - 1))
    ELSE Append(first_seen(SubSeq(names, 1, Len(names) - 1)), names[Len(names)])

\* C10: a section name has one position in a document: no name stands twice
\* in the section order, len() is the number of distinct names, write_to
\* emits each name's header once; a loaded document has its sections in the
\* order their names are first seen in the text, and append_entry on an
\* existing section appends to its entries.
C10_OnePosition ==
    Alive =>
        /\ \A i1, i2 \in 1..Len(unit.sections) :
               unit.sections[i1].key = unit.sections[i2].key => i1 = i2
        /\ len(unit) = Cardinality({unit.sections[i].key : i \in 1..Len(unit.sections)})
        /\ len(unit) = Len(unit.sections)
        /\ \A i \in 1..Len(unit.sections) :
               occurrences(write_to(unit), header_line(unit.sections[i].key)) = 1
        /\ op.kind = "load_from_str"
               => names_of(unit) = first_seen(headers_from(op.data, 1))
        /\ op.kind = "append_entry"
               => section_entries(unit, op.section)
                      = Append(op.before, <<op.key, op.value>>)

\* A text where the header of X reappears behind that of Y was loaded: X
\* keeps its first position and holds the entries of both its headers.
C10_Witness ==
    /\ op.kind = "load_from_str"
    /\ headers_from(op.data, 1) = <<X, Y, X>>
    /\ names_of(unit) = <<X, Y>>
    /\ len(unit) = 2
    /\ section_entries(unit, X) = << <<k, <<"a">>>>, <<k, <<"b">>>> >>


\* The value text joined by the rule of backslashes, read from index i: a
\* backslash and the newline after it become one space, a backslash and
\* another character after it stay as they are, a newline ends the value (a
\* backslash that ends the text has no character after it and adds nothing).
RECURSIVE Joined(_, _)
Joined(text, i) ==
    IF i > Len(text) \/ text[i] = "\n" THEN <<>>
    ELSE IF text[i] # "\\" THEN <<text[i]>> \o Joined(text, i + 1)
    ELSE IF i = Len(text) THEN <<>>
    ELSE IF text[i + 1] = "\n" THEN <<" ">> \o Joined(text, i + 2)
    ELSE <<"\\", text[i + 1]>> \o Joined(text, i + 2)

\* No comment marker or '[' stands right after a backslash and newline.
PlainAfterContinuation(text) ==
    \A i \in 1..(Len(text) - 2) :
        text[i] = "\\" /\ text[i + 1] = "\n"
            => ~(text[i + 2] \in {"#", ";", "["})

Scanned == pc \in {"scanned", "loaded", "failed"}

FooBar == <<"f", "o", "o", "\\", "\n", "b", "a", "r">>

\* C11: the value parse_value scans has one space for every backslash that
\* is followed by a newline, and goes on with the next line; it has the
\* backslash and the character for every backslash followed by another
\* character; the entry k=foo\<newline>bar has the logical value "foo bar".
C11_Continuation ==
    /\ Scanned /\ PlainAfterContinuation(s)
           => ret.ok /\ ret.val = Joined(s, 1)
    /\ pc = "loaded" /\ s = FooBar
           => lookup_all(unit, X, k) = << <<"f", "o", "o", " ", "b", "a", "r">> >>

C11_Witness ==
    /\ pc = "scanned"
    /\ s = <<"\\", "a", "\\", "\n">>
    /\ ret.val = <<"\\", "a", " ">>

HexChars ==
    <<"0", "1", "2", "3", "4", "5", "6", "7", "8", "9",
      "a", "b", "c", "d", "e", "f">>

UpperHexChars == <<"A", "B", "C", "D", "E", "F">>

IsHex(c) ==
    \/ \E n \in 1..16 : HexChars[n] = c
    \/ \E n \in 1..6 : UpperHexChars[n] = c

IsOctal(c) == \E n \in 1..8 : HexChars[n] = c

\* The value of the hex digit c.
HexValue(c) ==
    IF \E n \in 1..16 : HexChars[n] = c
    THEN (CHOOSE n \in 1..16 : HexChars[n] = c) - 1
    ELSE (CHOOSE n \in 1..6 : UpperHexChars[n] = c) + 9

\* The number the digits spell in the radix.
RECURSIVE NumberOf(_, _)
NumberOf(digits, radix) ==
    IF digits = <<>> THEN 0
    ELSE NumberOf(SubSeq(digits, 1, Len(digits) - 1), radix) * radix
         + HexValue(digits[Len(digits)])

\* The escape that starts with the backslash at index i of the literal:
\* where its digits start, how many it needs and in which radix (no digits
\* for an escape that is not numeric).
DigitsStart(lit, i) == IF lit[i + 1] \in {"x", "u", "U"} THEN i + 2 ELSE i + 1

DigitsNeeded(lit, i) ==
    CASE lit[i + 1] = "x" -> 2
      [] lit[i + 1] = "u" -> 4
      [] lit[i + 1] = "U" -> 8
      [] IsOctal(lit[i + 1]) -> 3
      [] OTHER -> 0

RadixOf(lit, i) == IF lit[i + 1] \in {"x", "u", "U"} THEN 16 ELSE 8

DigitsEnd(lit, i) == DigitsStart(lit, i) + DigitsNeeded(lit, i) - 1

IsNumeric(lit, i) == i < Len(lit) /\ DigitsNeeded(lit, i) > 0

\* All the digits the escape needs are there and are digits of its radix.
HasDigits(lit, i) ==
    /\ IsNumeric(lit, i)
    /\ DigitsEnd(lit, i) <= Len(lit)
    /\ \A n \in DigitsStart(lit, i)..DigitsEnd(lit, i) :
           IF RadixOf(lit, i) = 16 THEN IsHex(lit[n]) ELSE IsOctal(lit[n])

CodePoint(lit, i) ==
    NumberOf(SubSeq(lit, DigitsStart(lit, i), DigitsEnd(lit, i)), RadixOf(lit, i))

IsScalar(n) == n \in 0..55295 \/ n \in 57344..1114111

\* The escape at i is one of the malformed escapes: a backslash that ends
\* the literal, too few digits or a non-hex digit after \x, \u, \U, an
\* octal escape with a digit 8 or 9, the value zero, no scalar value.
Malformed(lit, i) ==
    \/ i = Len(lit)
    \/ /\ IsNumeric(lit, i) /\ RadixOf(lit, i) = 16 /\ ~HasDigits(lit, i)
    \/ /\ IsNumeric(lit, i) /\ RadixOf(lit, i) = 8
       /\ \E n \in DigitsStart(lit, i)..DigitsEnd(lit, i) :
              n <= Len(lit) /\ lit[n] \in {"8", "9"}
       /\ \A n \in DigitsStart(lit, i)..DigitsEnd(lit, i) :
              n <= Len(lit) => IsOctal(lit[n]) \/ lit[n] \in {"8", "9"}
    \/ /\ HasDigits(lit, i)
       /\ CodePoint(lit, i) = 0 \/ ~IsScalar(CodePoint(lit, i))

\* The escape at i is well-formed, and how long it is with its backslash.
WellFormed(lit, i) ==
    /\ i < Len(lit)
    /\ \/ lit[i + 1] \in {"a", "b", "f", "n", "r", "t", "v", "\\", "\"", "'", "s"}
       \/ HasDigits(lit, i) /\ CodePoint(lit, i) # 0
              /\ IsScalar(CodePoint(lit, i))

EscapeLen(lit, i) ==
    IF IsNumeric(lit, i) THEN DigitsEnd(lit, i) - i + 1 ELSE 2

\* The first backslash of the literal from index i on, or 0.
FirstBackslash(lit, i) ==
    IF \E n \in i..Len(lit) : lit[n] = "\\"
    THEN CHOOSE n \in i..Len(lit) :
             lit[n] = "\\" /\ \A m \in i..(n - 1) : lit[m] # "\\"
    ELSE 0

\* Reading the escapes of the literal from index i on, one after the other,
\* comes to a malformed one.
RECURSIVE MeetsMalformed(_, _)

MeetsMalformedAt(lit, n) ==
    IF n = 0 THEN FALSE
    ELSE IF Malformed(lit, n) THEN TRUE
    ELSE IF WellFormed(lit, n) THEN MeetsMalformed(lit, n + EscapeLen(lit, n))
    ELSE FALSE

MeetsMalformed(lit, i) == MeetsMalformedAt(lit, FirstBackslash(lit, i))

\* The literal is one numeric escape and nothing else.
OneNumericEscape(lit) ==
    /\ lit # <<>> /\ lit[1] = "\\"
    /\ HasDigits(lit, 1) /\ EscapeLen(lit, 1) = Len(lit)
    /\ WellFormed(lit, 1)

\* C12: unquote_value returns an error and no result for a literal that
\* has a backslash at its end, too few digits or a non-hex digit after \x,
\* \u or \U, an octal escape with a digit 8 or 9, an escape of value zero
\* or of no scalar value; a well-formed numeric escape decodes to the
\* character of its code point, \x41 and \101 to "A".
C12_Escapes ==
    pc = "unquoted" =>
        /\ MeetsMalformed(s, 1) => ~ret.ok /\ ret.val = <<>>
        /\ OneNumericEscape(s) => ret = Ok(<<chr(CodePoint(s, 1))>>)
        /\ s = <<"\\", "x", "4", "1">> => ret = Ok(<<"A">>)
        /\ s = <<"\\", "1", "0", "1">> => ret = Ok(<<"A">>)

C12_Witness ==
    /\ pc = "unquoted"
    /\ s = <<"a", "\\", "n", "\\", "x", "4", "1", "\\", "x", "0", "0">>
    /\ MeetsMalformed(s, 1)
    /\ ~ret.ok

IsKeyChar(c) == is_alphanumeric(c) \/ c = "-"

\* Every key recorded in the unit u is non-empty and made of alphanumeric
\* characters and hyphens.
GoodKeys(u) ==
    \A i \in 1..Len(u.sections) :
        \A n \in 1..Len(u.sections[i].value.data) :
            /\ u.sections[i].value.data[n].key # <<>>
            /\ \A m \in 1..Len(u.sections[i].value.data[n].key) :
                   IsKeyChar(u.sections[i].value.data[n].key[m])

\* The index of the first character of text from i on that is in the set
\* end, or the index after the text.
FirstOf(text, i, end) ==
    IF \E n \in i..Len(text) : text[n] \in end
    THEN CHOOSE n \in i..Len(text) :
             text[n] \in end /\ \A m \in i..(n - 1) : ~(text[m] \in end)
    ELSE Len(text) + 1

\* The index of the first character of text from i on that is not a blank,
\* or the index after the text.
FirstNonBlank(text, i) ==
    IF \E n \in i..Len(text) : ~(text[n] \in {" ", "\t"})
    THEN CHOOSE n \in i..Len(text) :
             /\ ~(text[n] \in {" ", "\t"})
             /\ \A m \in i..(n - 1) : text[m] \in {" ", "\t"}
    ELSE Len(text) + 1

\* An entry line starts at index i of the text (the first line of section X
\* that is no comment, no header and not blank).
EntryLineAt(text, i) ==
    /\ i <= Len(text)
    /\ Len(text) >= 4
    /\ SubSeq(text, 1, 4) = <<"[", "X", "]", "\n">>
    /\ i = FirstOf(text, 5, DOMAIN ord \ {" ", "\t", "\n", "\r", "\f"})
    /\ ~(text[i] \in {"#", ";", "["})

KeyEnd(text, i) == FirstOf(text, i, {"=", " ", "\t", "\n", "\r"})

\* The entry line at i has an empty key, a key with a character that no key
\* may have, or no '=' after the key.
BadEntryLine(text, i) ==
    \/ KeyEnd(text, i) = i
    \/ \E m \in i..(KeyEnd(text, i) - 1) : ~IsKeyChar(text[m])
    \/ FirstNonBlank(text, KeyEnd(text, i)) > Len(text)
    \/ text[FirstNonBlank(text, KeyEnd(text, i))] # "="

\* C13: every key of a unit that load_from_str returns is non-empty and made
\* of alphanumeric characters and hyphens; an entry line with an empty key,
\* with another character in its key or without '=' after the key makes
\* load_from_str fail with a ParseError.
C13_Keys ==
    op.kind = "load_from_str" =>
        /\ op.ok => GoodKeys(unit)
        /\ \A i \in 1..Len(op.data) :
               EntryLineAt(op.data, i) /\ BadEntryLine(op.data, i)
                   => ~op.ok /\ op.err.msg # ""

\* The number of newlines among the first n characters of text.
NewlinesUpTo(text, n) == Cardinality({m \in 1..n : text[m] = "\n"})

\* The number of characters of text behind its last newline.
AfterLastNewline(text) ==
    Len(text) - (IF \E m \in 1..Len(text) : text[m] = "\n"
                 THEN CHOOSE m \in 1..Len(text) :
                          /\ text[m] = "\n"
                          /\ \A n \in (m + 1)..Len(text) : text[n] # "\n"
                 ELSE 0)

\* A section header is opened at index i of the text: a well-formed text
\* that ends at the start of a line stands before it.
HeaderOpenedAt(text, i) ==
    /\ i <= Len(text) /\ text[i] = "["
    /\ SubSeq(text, 1, i - 1) \in Prefixes

\* C14 as stated: when a section header is opened and no ']' follows before
\* the end of the input, load_from_str fails with a ParseError at the end of
\* the input: its line is the number of newlines of the input and its
\* column the number of characters behind the last newline.
C14_AtEndOfInput ==
    op.kind = "load_from_str" =>
        \A i \in 1..Len(op.data) :
            /\ HeaderOpenedAt(op.data, i)
            /\ \A n \in i..Len(op.data) : op.data[n] # "]"
            => /\ ~op.ok
               /\ op.err.line = NewlinesUpTo(op.data, Len(op.data))
               /\ op.err.col = AfterLastNewline(op.data)

\* C14: when a section header is opened and no ']' follows before the end of
\* its line, load_from_str fails with a ParseError at the newline that ends
\* the line (line = number of newlines up to and with it, column 0), or at
\* the end of the input when no newline follows (line = number of newlines
\* of the input, column = number of characters behind the last newline).
C14_AtEndOfLine ==
    op.kind = "load_from_str" =>
        \A i \in 1..Len(op.data) :
            /\ HeaderOpenedAt(op.data, i)
            /\ FirstOf(op.data, i, {"]", "\n"}) > Len(op.data)
                   \/ op.data[FirstOf(op.data, i, {"]", "\n"})] = "\n"
            => /\ ~op.ok
               /\ op.err.line =
                      NewlinesUpTo(op.data,
                                   IF FirstOf(op.data, i, {"\n"}) > Len(op.data)
                                   THEN Len(op.data)
                                   ELSE FirstOf(op.data, i, {"\n"}))
               /\ op.err.col =
                      IF FirstOf(op.data, i, {"\n"}) > Len(op.data)
                      THEN AfterLastNewline(op.data) ELSE 0

C14_Witness ==
    /\ op.kind = "load_from_str"
    /\ op.data = <<"[", "X", "]", "\n", "k", "=", "a", "\n",
                   "[", "Y", "\n", "k", "=">>
    /\ ~op.ok
    /\ op.err.line = 3 /\ op.err.col = 0

\* C15: when a call to next of a SplitWord meets a malformed escape
\* sequence, that call returns no word and so does every later call to next
\* on the same tokenizer.
C15_NothingAfterMalformed ==
    \A n \in 1..Len(out.word) :
        out.word[n].err
            => \A m \in n..Len(out.word) : out.word[m].word = None

\* The calls to next so far have come to one that returned no word.
Ended(yields) == \E n \in 1..Len(yields) : yields[n].word = None

\* The words the calls returned before the first one that returned none.
WordsOf(yields) ==
    [n \in 1..((CHOOSE e \in 1..Len(yields) :
                    /\ yields[e].word = None
                    /\ \A m \in 1..(e - 1) : yields[m].word # None) - 1) |->
        yields[n].word]

\* The text with every character `from` replaced by the character `to`.
Subst(text, from, to) ==
    [n \in 1..Len(text) |-> IF text[n] = from THEN to ELSE text[n]]

SubstWords(words, from, to) ==
    [n \in 1..Len(words) |-> Subst(words[n], from, to)]

\* The text with the characters from index i to index n replaced by filler.
Replaced(text, i, n, filler) ==
    SubSeq(text, 1, i - 1) \o filler \o SubSeq(text, n + 1, Len(text))

\* The character an escape letter stands for in SplitWord; a character that
\* is no escape letter stands for itself.
Decoded(c) ==
    CASE c = "a" -> "^G"  [] c = "b" -> "^H"  [] c = "f" -> "\f"
      [] c = "n" -> "\n"  [] c = "r" -> "\r"  [] c = "t" -> "\t"
      [] c = "v" -> "^K"  [] c = "s" -> " "   [] OTHER -> c

StartsNumber(c) == c \in {"x", "u", "U"} \/ IsOctal(c)

ThreeWords == <<"a", " ", "\"", "b", " ", "c", "\"", " ", "d", "\\", "e">>

\* What C16 says of SplitWord, and of the three tokenizers on one source:
\* a backslash that ends the source is dropped without error; a backslash
\* and the character after it become the character they stand for, an
\* unknown escape letter itself; on a "b c" d\e SplitStrv returns a, b c,
\* d\e and SplitWord a, b c, de, while unquote_value fails.
Lenient ==
    /\ Ended(out.word) /\ FirstBackslash(s, 1) = Len(s) /\ s # <<>>
           => /\ WordsOf(out.word)
                     = SplitWord_collect(SubSeq(s, 1, Len(s) - 1))
              /\ \A n \in 1..Len(out.word) : ~out.word[n].err
    /\ (/\ Ended(out.word)
        /\ FirstBackslash(s, 1) \in 1..(Len(s) - 1)
        /\ ~StartsNumber(s[FirstBackslash(s, 1) + 1]))
           => WordsOf(out.word)
                  = SubstWords(
                        SplitWord_collect(
                            Replaced(s, FirstBackslash(s, 1),
                                     FirstBackslash(s, 1) + 1, <<"z">>)),
                        "z", Decoded(s[FirstBackslash(s, 1) + 1]))
    /\ s = ThreeWords /\ Ended(out.strv) /\ Ended(out.word)
           => /\ WordsOf(out.strv)
                     = << <<"a">>, <<"b", " ", "c">>, <<"d", "\\", "e">> >>
              /\ WordsOf(out.word) = << <<"a">>, <<"b", " ", "c">>, <<"d", "e">> >>
              /\ ~unquote_value(s).ok

Exhausted(src, t) == \A n \in t.i..Len(src) : src[n] \in {" ", "\t", "\n", "\r"}

\* C19: when the last call to next of a SplitStrv returned no word, and when
\* the last call to next of a SplitWord returned no word and no call met a
\* malformed escape, no character but whitespace is left in the source; no
\* call returns the empty string, so a pair of quotes with nothing between
\* them yields no word and does not hide the words behind it.
C19_EndsWhenExhausted ==
    /\ out.strv # <<>> /\ out.strv[Len(out.strv)].word = None
           => Exhausted(s, split_strv)
    /\ (/\ out.word # <<>>
        /\ out.word[Len(out.word)].word = None
        /\ \A n \in 1..Len(out.word) : ~out.word[n].err)
           => Exhausted(s, split_word)
    /\ \A n \in 1..Len(out.strv) :
           out.strv[n].word = None \/ out.strv[n].word # <<>>
    /\ \A n \in 1..Len(out.word) :
           out.word[n].word = None \/ out.word[n].word # <<>>

\* The literal without its quoting, read from index i with the output so
\* far in result and the open quote in quote: a quote character opens
\* quoting at the start of the literal or behind whitespace in the output;
\* inside quotes every character is copied but the matching quote character,
\* which closes quoting.
RECURSIVE Unquoted(_, _, _, _)
Unquoted(lit, i, result, quote) ==
    IF i > Len(lit) THEN result
    ELSE IF quote # None
    THEN IF lit[i] = quote THEN Unquoted(lit, i + 1, result, None)
         ELSE Unquoted(lit, i + 1, Append(result, lit[i]), quote)
    ELSE IF lit[i] \in {"'", "\""} /\ (i = 1 \/ ends_with_ws(result))
    THEN Unquoted(lit, i + 1, result, lit[i])
    ELSE Unquoted(lit, i + 1, Append(result, lit[i]), None)

\* C17: unquote_value opens quoting at a quote character only at the start
\* of the literal or when the output so far ends in whitespace; once a quote
\* is open it copies every character (of a literal without backslashes),
\* the other quote character and a quote character behind whitespace too,
\* up to the matching quote character, which it drops and which closes
\* quoting.
C17_Quoting ==
    pc = "unquoted" /\ (\A n \in 1..Len(s) : s[n] # "\\")
        => ret = Ok(Unquoted(s, 1, <<>>, None))

\* The first backslash of the text stands on its first line and a newline
\* follows it: the scanner is in post-continuation mode behind the two.
FirstContinuation(text) ==
    /\ FirstBackslash(text, 1) \in 1..(Len(text) - 1)
    /\ text[FirstBackslash(text, 1) + 1] = "\n"
    /\ \A n \in 1..FirstBackslash(text, 1) : text[n] # "\n"

BeforeContinuation(text) == SubSeq(text, 1, FirstBackslash(text, 1) - 1)

AfterContinuation(text) ==
    SubSeq(text, FirstBackslash(text, 1) + 2, Len(text))

\* The text pre, a continuation, and rest without its first line.
WithoutFirstLine(pre, rest) ==
    pre \o <<"\\", "\n">>
        \o SubSeq(rest, FirstOf(rest, 1, {"\n"}) + 1, Len(rest))

\* What the scan r of the text pre, continuation, rest is, by the first
\* character of rest.
PostContinuation(r, pre, rest) ==
    /\ rest[1] \in {"\n", "["}
           => /\ r.val = pre \o <<" ">>
              /\ r.p.i = Len(pre) + 3
    /\ rest[1] \in {"#", ";"} /\ FirstOf(rest, 1, {"\n"}) > Len(rest)
           => r.val = pre \o <<" ">>
    /\ rest[1] \in {"#", ";"} /\ FirstOf(rest, 1, {"\n"}) <= Len(rest)
           => /\ r.val = parse_value(WithoutFirstLine(pre, rest),
                                     parser_new(WithoutFirstLine(pre, rest))).val
              /\ r.p.i = parse_value(WithoutFirstLine(pre, rest),
                                     parser_new(WithoutFirstLine(pre, rest))).p.i
                             + FirstOf(rest, 1, {"\n"})
    /\ ~(rest[1] \in {"\n", "[", "#", ";"})
           => r.val = pre \o <<" ">> \o parse_value(rest, parser_new(rest)).val

CommentThenHeader ==
    <<"a", "\\", "\n", "#", "c", "\n", "[", "Y", "]", "\n", "j", "=", "b">>

\* C18: behind a line continuation the next character decides: a comment
\* line ('#' or ';') is skipped whole and the line after it is read in the
\* same mode; a newline ends the value; a '[' ends the value and stays
\* unread, so that it starts the next section header; any other character
\* goes on with the value as in normal mode (a backslash may start another
\* continuation).
C18_PostContinuation ==
    /\ Scanned /\ FirstContinuation(s) /\ AfterContinuation(s) # <<>>
           => /\ ret.ok
              /\ PostContinuation(ret, BeforeContinuation(s), AfterContinuation(s))
    /\ pc = "loaded" /\ s = CommentThenHeader
           => /\ lookup_all(unit, X, k) = << <<"a", " ">> >>
              /\ lookup_all(unit, Y, j) = << <<"b">> >>

C18_Witness ==
    /\ pc = "loaded"
    /\ s = CommentThenHeader
    /\ ret.val = <<"a", " ">>
    /\ names_of(unit) = <<X, Y>>
=============================================================================
